---- MODULE Spec2Model ----
(***************************************************************************)
(* Model of TestOpenCLSamplers.cpp: the CPU reference evaluator for        *)
(* CL_ADDRESS_MIRRORED_REPEAT (cpu_reference_calculation) and the          *)
(* verification harness (main) that compares it with an OpenCL kernel.     *)
(*                                                                         *)
(* Four specifications share the variables:                                *)
(*   SpecMirror  the per-axis mirroring step on one (extent, coordinate)   *)
(*   SpecEval    cpu_reference_calculation, one loop iteration per step    *)
(*   Spec        main(), with the OpenCL backend as an external            *)
(*               collaborator whose calls may fail and whose output buffer *)
(*               is arbitrary                                              *)
(*   SpecKernel  main(), with the backend running the per-pixel mapping    *)
(*               as independent work-items on NumUnits compute units       *)
(*                                                                         *)
(* int values are modelled as mathematical integers.  Within the bounds    *)
(* below every intermediate value is far inside the range of int, so no    *)
(* int operation of the code overflows on the inputs that are explored.    *)
(***************************************************************************)
EXTENDS Integers, Sequences, FiniteSets

\* ---- bounds of the exploration --------------------------------------
MaxExtent == 5
MaxShift == 12
MaxSrc == 3
MaxDst == 4
MaxOffset == 3
NumUnits == 2
MaxGap == 3

\* ---- the constants of main() -----------------------------------------
input_width == 4
input_height == 5
output_width == 12
output_height == 12
offset_0 == 5
offset_1 == 2
input_size == input_width * input_height
output_size == output_width * output_height

VARIABLES
    \* SpecMirror: one axis of one pixel
    extent, shifted, src_index, mirrored,
    \* SpecEval: the parameters and locals of cpu_reference_calculation
    src_w, src_h, dst_w, dst_h, offset_x, offset_y,
    src_data, dst_data, x_out, y_out,
    rd_index, wr_index, n_done, epc,
    \* Spec, SpecKernel: main() and the OpenCL backend
    pc,                    \* the statement main() is at
    host_input_data, cpu_result, kernel_result_manual,
    image_out,             \* the device's output image
    kernel_cmd,            \* the enqueued kernel: "none", "queued", "complete"
    next_item,             \* per compute unit, its next work-item
    i, manual_match,       \* the comparison loop
    n_examined, last_examined,
    out, errs,             \* std::cout and std::cerr
    exit_code,             \* -1 while the process runs
    failed_at,             \* the first call that failed, or "none"
    trace,                 \* the backend and file calls made, in order
    acquired, released     \* backend handles

mirrorVars == <<extent, shifted, src_index, mirrored>>
evalVars == <<src_w, src_h, dst_w, dst_h, offset_x, offset_y,
              src_data, dst_data, x_out, y_out,
              rd_index, wr_index, n_done, epc>>
mainVars == <<pc, host_input_data, cpu_result, kernel_result_manual, image_out,
              kernel_cmd, next_item, i, manual_match, n_examined, last_examined,
              out, errs, exit_code, failed_at, trace, acquired, released>>
vars == <<mirrorVars, evalVars, mainVars>>

\* ---- cpu_reference_calculation: the per-axis arithmetic --------------

\* The % of C++ on int: the quotient truncates towards zero, so the
\* remainder has the sign of the dividend.  b > 0 at both uses.
CRem(a, b) == IF a >= 0 THEN a % b ELSE -((-a) % b)

\* Faulty variants of the mirroring step: an index one too large, a
\* reflection of negative coordinates without the -1, and a reflection
\* that does not repeat the edge pixel.
MirrorIndexOffByOne(s, e) ==
    LET prime == IF s < 0 THEN -s - 1 ELSE s
        mod_2s == CRem(prime, e * 2)
    IN  IF mod_2s < e THEN mod_2s ELSE e * 2 - mod_2s

MirrorIndexNoFlipAdjust(s, e) ==
    LET prime == IF s < 0 THEN -s ELSE s
        mod_2s == CRem(prime, e * 2)
    IN  IF mod_2s < e THEN mod_2s ELSE e * 2 - 1 - mod_2s

MirrorIndexReflect101(s, e) ==
    LET prime == IF s < 0 THEN -s ELSE s
        period == IF e > 1 THEN e * 2 - 2 ELSE 1
        mod_2s == CRem(prime, period)
    IN  IF mod_2s < e THEN mod_2s ELSE period - mod_2s

\* Lines 35-38 (X) and 41-44 (Y): x_prime, x_mod_2s, x_src.
MirrorIndex(s, e) ==
    LET prime == IF s < 0 THEN -s - 1 ELSE s
        mod_2s == CRem(prime, e * 2)
    IN  IF mod_2s < e THEN mod_2s ELSE e * 2 - 1 - mod_2s

\* Lines 31-32: the offset is cast to int and subtracted.
ShiftCoordOffByOne(coord, offset) == coord - offset - 1

ShiftCoord(coord, offset) == coord - offset

\* Line 47: the row-major positions read and written.
SrcOffsetByHeight(x_src, y_src, w) == x_src * w + y_src

SrcOffset(x_src, y_src, w) == y_src * w + x_src

DstOffset(x, y, w) == y * w + x

\* A std::vector<float> of n elements, indexed from 0.
ZeroBuffer(n) == [k \in 0..(n - 1) |-> 0]

\* The value written for destination pixel (x, y): lines 31-47.
PixelValueSwappedOffsets(src, sw, sh, x, y, ox, oy) ==
    src[SrcOffset(MirrorIndex(ShiftCoord(x, oy), sw),
                  MirrorIndex(ShiftCoord(y, ox), sh), sw)]

PixelValue(src, sw, sh, x, y, ox, oy) ==
    src[SrcOffset(MirrorIndex(ShiftCoord(x, ox), sw),
                  MirrorIndex(ShiftCoord(y, oy), sh), sw)]

\* The whole call (lines 27-49), for callers that only need its result.
cpu_reference_calculation(src, sw, sh, dw, dh, ox, oy) ==
    [k \in 0..(dw * dh - 1) |-> PixelValue(src, sw, sh, k % dw, k \div dw, ox, oy)]

\* ---- idle values of the variables a specification does not use -------

IdleMirror ==
    /\ extent = 1
    /\ shifted = 0
    /\ src_index = -1
    /\ mirrored = FALSE

IdleEval ==
    /\ src_w = 1 /\ src_h = 1 /\ dst_w = 0 /\ dst_h = 0
    /\ offset_x = 0 /\ offset_y = 0
    /\ src_data = ZeroBuffer(1)
    /\ dst_data = ZeroBuffer(0)
    /\ x_out = 0 /\ y_out = 0
    /\ rd_index = 0 /\ wr_index = 0 /\ n_done = 0
    /\ epc = "idle"

IdleMain ==
    /\ pc = "idle"
    /\ host_input_data = ZeroBuffer(0)
    /\ cpu_result = ZeroBuffer(0)
    /\ kernel_result_manual = ZeroBuffer(0)
    /\ image_out = ZeroBuffer(0)
    /\ kernel_cmd = "none"
    /\ next_item = <<>>
    /\ i = 0 /\ manual_match = TRUE
    /\ n_examined = 0 /\ last_examined = -1
    /\ out = <<>> /\ errs = <<>>
    /\ exit_code = -1
    /\ failed_at = "none"
    /\ trace = <<>>
    /\ acquired = {} /\ released = {}

\* ---- SpecMirror: one application of the per-axis step ----------------

InitMirror ==
    /\ extent \in 1..MaxExtent
    /\ shifted \in (-MaxShift)..MaxShift
    /\ src_index = -1
    /\ mirrored = FALSE
    /\ IdleEval
    /\ IdleMain

MirrorAxis ==
    /\ ~mirrored
    /\ src_index' = MirrorIndex(shifted, extent)
    /\ mirrored' = TRUE
    /\ UNCHANGED <<extent, shifted, evalVars, mainVars>>

NextMirror == MirrorAxis

SpecMirror == InitMirror /\ [][NextMirror]_vars

\* ---- SpecEval: cpu_reference_calculation, step by step ---------------

\* Source contents the callers may pass: the ramp main() builds (line 89)
\* and a second buffer with other values.
SourceBuffers(n) ==
    { [k \in 0..(n - 1) |-> k], [k \in 0..(n - 1) |-> (n - k) * 2 + 1] }

InitEval ==
    /\ src_w \in 1..MaxSrc /\ src_h \in 1..MaxSrc
    /\ dst_w \in 0..MaxDst /\ dst_h \in 0..MaxDst
    /\ offset_x \in 0..MaxOffset /\ offset_y \in 0..MaxOffset
    /\ src_data \in SourceBuffers(src_w * src_h)
    /\ dst_data = ZeroBuffer(dst_w * dst_h)
    /\ x_out = 0 /\ y_out = 0
    /\ rd_index = 0 /\ wr_index = 0 /\ n_done = 0
    /\ epc = "loop"
    /\ IdleMirror
    /\ IdleMain

\* Lines 28-48: one iteration of the inner loop.  An index outside its
\* vector is undefined behaviour; the run is then lost ("fault").
EvalPixel ==
    /\ epc = "loop" /\ y_out < dst_h /\ x_out < dst_w
    /\ LET x_shifted == ShiftCoord(x_out, offset_x)
           y_shifted == ShiftCoord(y_out, offset_y)
           x_src == MirrorIndex(x_shifted, src_w)
           y_src == MirrorIndex(y_shifted, src_h)
           rd == SrcOffset(x_src, y_src, src_w)
           wr == DstOffset(x_out, y_out, dst_w)
       IN  /\ rd_index' = rd
           /\ wr_index' = wr
           /\ IF rd \in DOMAIN src_data /\ wr \in DOMAIN dst_data
              THEN /\ dst_data' = [dst_data EXCEPT ![wr] = src_data[rd]]
                   /\ epc' = epc
              ELSE /\ dst_data' = dst_data
                   /\ epc' = "fault"
    /\ n_done' = n_done + 1
    /\ x_out' = x_out + 1
    /\ UNCHANGED <<src_w, src_h, dst_w, dst_h, offset_x, offset_y, src_data, y_out>>
    /\ UNCHANGED <<mirrorVars, mainVars>>

\* Lines 27-28: the inner loop ends, the outer loop advances.
EvalNextRow ==
    /\ epc = "loop" /\ y_out < dst_h /\ x_out >= dst_w
    /\ y_out' = y_out + 1
    /\ x_out' = 0
    /\ UNCHANGED <<src_w, src_h, dst_w, dst_h, offset_x, offset_y,
                   src_data, dst_data, rd_index, wr_index, n_done, epc>>
    /\ UNCHANGED <<mirrorVars, mainVars>>

\* Line 50: the outer loop ends and the function returns.
EvalReturn ==
    /\ epc = "loop" /\ y_out >= dst_h
    /\ epc' = "done"
    /\ UNCHANGED <<src_w, src_h, dst_w, dst_h, offset_x, offset_y,
                   src_data, dst_data, x_out, y_out, rd_index, wr_index, n_done>>
    /\ UNCHANGED <<mirrorVars, mainVars>>

NextEval == EvalPixel \/ EvalNextRow \/ EvalReturn

SpecEval == InitEval /\ [][NextEval]_vars

\* ---- main(): the verification harness -------------------------------

\* The statements of main() that can end the run, in program order.
CallOrder ==
    << "clGetPlatformIDs", "clGetDeviceIDs", "clCreateContext",
       "clCreateCommandQueue", "open_kernel_file", "clCreateProgramWithSource",
       "clBuildProgram", "clCreateKernel", "clCreateImage_in", "clCreateImage_out",
       "clSetKernelArg_0", "clSetKernelArg_1", "clSetKernelArg_2",
       "clEnqueueNDRangeKernel", "clEnqueueReadImage", "clFinish" >>

\* The two queries of the build log, made only after a failed build.
BuildLogCalls == << "clGetProgramBuildInfo_size", "clGetProgramBuildInfo_log" >>

\* The calls that are nothing but a status under CL_CHECK.
PlainCalls ==
    { "clGetPlatformIDs", "clGetDeviceIDs", "clCreateContext",
      "clCreateCommandQueue", "clCreateProgramWithSource", "clCreateKernel",
      "clCreateImage_in", "clCreateImage_out",
      "clSetKernelArg_0", "clSetKernelArg_1", "clSetKernelArg_2" }

\* The statement after `step` on the successful path.
After(step) ==
    LET k == CHOOSE n \in 1..Len(CallOrder) : CallOrder[n] = step
    IN  IF k < Len(CallOrder) THEN CallOrder[k + 1] ELSE "compare"

\* The handle a successful call leaves behind.
Acquires(step) ==
    CASE step = "clCreateContext" -> {"context"}
      [] step = "clCreateCommandQueue" -> {"queue"}
      [] step = "clCreateProgramWithSource" -> {"program"}
      [] step = "clCreateKernel" -> {"kernel_manual"}
      [] step = "clCreateImage_in" -> {"image_in"}
      [] step = "clCreateImage_out" -> {"image_out_manual"}
      [] OTHER -> {}

\* The six handles released by lines 215-220.
AllHandles ==
    {"image_in", "image_out_manual", "kernel_manual", "program", "queue", "context"}

\* CL_CHECK (lines 12-16): a status other than CL_SUCCESS prints and exits.
CL_CHECK_LogOnly(ok, cont) == cont

CL_CHECK(ok, cont) == IF ok THEN cont ELSE "exit"

\* Line 197: the exact comparison of two floats holding small integers.
DiffersOnlyIfGreater(a, b) == a > b

Differs(a, b) == a # b

\* Line 206: the condition on the dump is commented out; both buffers are
\* always printed.
DumpBuffers(match) == TRUE

\* Line 188: CL_TRUE makes the read blocking, and the queue of line 116 is
\* in-order, so the read returns only once the kernel has completed.
ReadReturnsAtOnce == TRUE

ReadImageReady == kernel_cmd = "complete"

\* Line 222 against exit(1) of CL_CHECK and the two `return 1`.
ReturnCodeByMatch(match) == IF match THEN 0 ELSE 1

ReturnCode(match) == 0

\* The contents of device memory nobody has written.
Unwritten(n) == [k \in 0..(n - 1) |-> -1]

InitMain ==
    /\ pc = "generate_input"
    /\ host_input_data = ZeroBuffer(input_size)
    /\ cpu_result = ZeroBuffer(output_size)
    /\ kernel_result_manual = ZeroBuffer(output_size)
    /\ image_out = Unwritten(output_size)
    /\ kernel_cmd = "none"
    /\ next_item = [u \in 0..(NumUnits - 1) |-> u]
    /\ i = 0 /\ manual_match = TRUE
    /\ n_examined = 0 /\ last_examined = -1
    /\ out = <<>> /\ errs = <<>>
    /\ exit_code = -1
    /\ failed_at = "none"
    /\ trace = <<>>
    /\ acquired = {} /\ released = {}
    /\ IdleMirror
    /\ IdleEval

\* Lines 87-90.
GenerateInput ==
    /\ pc = "generate_input"
    /\ host_input_data' = [k \in 0..(input_size - 1) |-> k]
    /\ pc' = "cpu_reference"
    /\ UNCHANGED <<cpu_result, kernel_result_manual, image_out, kernel_cmd, next_item,
                   i, manual_match, n_examined, last_examined, out, errs, exit_code,
                   failed_at, trace, acquired, released>>
    /\ UNCHANGED <<mirrorVars, evalVars>>

\* Line 97.
CpuReference ==
    /\ pc = "cpu_reference"
    /\ cpu_result' = cpu_reference_calculation(host_input_data, input_width, input_height,
                                               output_width, output_height, offset_0, offset_1)
    /\ pc' = CallOrder[1]
    /\ UNCHANGED <<host_input_data, kernel_result_manual, image_out, kernel_cmd, next_item,
                   i, manual_match, n_examined, last_examined, out, errs, exit_code,
                   failed_at, trace, acquired, released>>
    /\ UNCHANGED <<mirrorVars, evalVars>>

\* What every call under CL_CHECK does to the run, given where a
\* successful call continues.
Checked(ok, cont) ==
    /\ pc' = CL_CHECK(ok, cont)
    /\ trace' = Append(trace, pc)
    /\ failed_at' = IF ok \/ failed_at # "none" THEN failed_at ELSE pc
    /\ errs' = IF ok THEN errs ELSE Append(errs, "OpenCL Error")
    /\ exit_code' = IF CL_CHECK(ok, cont) = "exit" THEN 1 ELSE exit_code

\* Lines 110-117, 129-130, 144-145, 161-163, 172-173, 176-178.
ClCall ==
    /\ pc \in PlainCalls
    /\ \E ok \in BOOLEAN :
          /\ Checked(ok, After(pc))
          /\ acquired' = IF ok THEN acquired \cup Acquires(pc) ELSE acquired
    /\ UNCHANGED <<host_input_data, cpu_result, kernel_result_manual, image_out,
                   kernel_cmd, next_item, i, manual_match, n_examined, last_examined,
                   out, released>>
    /\ UNCHANGED <<mirrorVars, evalVars>>

\* Lines 120-127.
OpenKernelFile ==
    /\ pc = "open_kernel_file"
    /\ \E is_open \in BOOLEAN :
          /\ pc' = IF is_open THEN After(pc) ELSE "exit"
          /\ failed_at' = IF is_open THEN failed_at ELSE pc
          /\ errs' = IF is_open THEN errs ELSE Append(errs, "Could not open kernel file")
          /\ exit_code' = IF is_open THEN exit_code ELSE 1
    /\ trace' = Append(trace, pc)
    /\ UNCHANGED <<host_input_data, cpu_result, kernel_result_manual, image_out,
                   kernel_cmd, next_item, i, manual_match, n_examined, last_examined,
                   out, acquired, released>>
    /\ UNCHANGED <<mirrorVars, evalVars>>

\* Lines 133-134: a failed build goes on to fetch the build log.
BuildProgram ==
    /\ pc = "clBuildProgram"
    /\ \E ok \in BOOLEAN :
          /\ pc' = IF ok THEN After(pc) ELSE BuildLogCalls[1]
          /\ failed_at' = IF ok THEN failed_at ELSE pc
    /\ trace' = Append(trace, pc)
    /\ UNCHANGED <<host_input_data, cpu_result, kernel_result_manual, image_out,
                   kernel_cmd, next_item, i, manual_match, n_examined, last_examined,
                   out, errs, exit_code, acquired, released>>
    /\ UNCHANGED <<mirrorVars, evalVars>>

\* Lines 135-140: the two log queries, each under CL_CHECK, then the log
\* is printed and main returns 1.
BuildLog ==
    /\ \/ /\ pc = BuildLogCalls[1]
          /\ \E ok \in BOOLEAN : Checked(ok, BuildLogCalls[2])
       \/ /\ pc = BuildLogCalls[2]
          /\ \E ok \in BOOLEAN :
                /\ pc' = "exit"
                /\ trace' = Append(trace, pc)
                /\ failed_at' = failed_at
                /\ errs' = Append(errs, IF CL_CHECK(ok, "log") = "log"
                                        THEN "OpenCL Build Error" ELSE "OpenCL Error")
                /\ exit_code' = 1
    /\ UNCHANGED <<host_input_data, cpu_result, kernel_result_manual, image_out,
                   kernel_cmd, next_item, i, manual_match, n_examined, last_examined,
                   out, acquired, released>>
    /\ UNCHANGED <<mirrorVars, evalVars>>

\* Lines 181-182: the dispatch only queues the kernel.
EnqueueKernel ==
    /\ pc = "clEnqueueNDRangeKernel"
    /\ \E ok \in BOOLEAN :
          /\ Checked(ok, After(pc))
          /\ kernel_cmd' = IF ok THEN "queued" ELSE kernel_cmd
    /\ UNCHANGED <<host_input_data, cpu_result, kernel_result_manual, image_out,
                   next_item, i, manual_match, n_examined, last_examined,
                   out, acquired, released>>
    /\ UNCHANGED <<mirrorVars, evalVars>>

\* Lines 185-189: the read copies the device image to the host vector; it
\* may also fail, at any time.
ReadImage ==
    /\ pc = "clEnqueueReadImage"
    /\ \E ok \in BOOLEAN :
          /\ ok => ReadImageReady
          /\ Checked(ok, After(pc))
          /\ kernel_result_manual' = IF ok THEN image_out ELSE kernel_result_manual
    /\ UNCHANGED <<host_input_data, cpu_result, image_out, kernel_cmd, next_item,
                   i, manual_match, n_examined, last_examined, out, acquired, released>>
    /\ UNCHANGED <<mirrorVars, evalVars>>

\* Line 192, then lines 195-196: the loop starts at 0 with the flag true.
Finish ==
    /\ pc = "clFinish"
    /\ \E ok \in BOOLEAN :
          /\ ok => kernel_cmd # "queued"
          /\ Checked(ok, After(pc))
    /\ i' = 0
    /\ manual_match' = TRUE
    /\ UNCHANGED <<host_input_data, cpu_result, kernel_result_manual, image_out,
                   kernel_cmd, next_item, n_examined, last_examined,
                   out, acquired, released>>
    /\ UNCHANGED <<mirrorVars, evalVars>>

\* Lines 196-201: one iteration of the comparison loop.
CompareStep ==
    /\ pc = "compare" /\ i < output_size
    /\ n_examined' = n_examined + 1
    /\ last_examined' = i
    /\ IF Differs(cpu_result[i], kernel_result_manual[i])
       THEN /\ manual_match' = FALSE
            /\ errs' = Append(errs, <<"Mismatch found at index", i,
                                      cpu_result[i], kernel_result_manual[i]>>)
            /\ pc' = "report"
            /\ i' = i
       ELSE /\ i' = i + 1
            /\ UNCHANGED <<manual_match, errs, pc>>
    /\ UNCHANGED <<host_input_data, cpu_result, kernel_result_manual, image_out,
                   kernel_cmd, next_item, out, exit_code, failed_at, trace,
                   acquired, released>>
    /\ UNCHANGED <<mirrorVars, evalVars>>

\* Line 196: the loop condition fails.
CompareEnd ==
    /\ pc = "compare" /\ i >= output_size
    /\ pc' = "report"
    /\ UNCHANGED <<host_input_data, cpu_result, kernel_result_manual, image_out,
                   kernel_cmd, next_item, i, manual_match, n_examined, last_examined,
                   out, errs, exit_code, failed_at, trace, acquired, released>>
    /\ UNCHANGED <<mirrorVars, evalVars>>

\* Lines 204-212.
Report ==
    /\ pc = "report"
    /\ out' = out \o << "--- Results Comparison ---",
                        IF manual_match THEN "CPU vs. Manual Mirrored Kernel: PASS"
                                        ELSE "CPU vs. Manual Mirrored Kernel: FAIL" >>
                  \o (IF DumpBuffers(manual_match)
                      THEN << "CPU Result:", "printMatrix(cpu_result)",
                              "Kernel Result:", "printMatrix(kernel_result_manual)" >>
                      ELSE << >>)
    /\ pc' = "cleanup"
    /\ UNCHANGED <<host_input_data, cpu_result, kernel_result_manual, image_out,
                   kernel_cmd, next_item, i, manual_match, n_examined, last_examined,
                   errs, exit_code, failed_at, trace, acquired, released>>
    /\ UNCHANGED <<mirrorVars, evalVars>>

\* Lines 215-222: the releases are not checked; main returns 0.
Cleanup ==
    /\ pc = "cleanup"
    /\ released' = AllHandles
    /\ exit_code' = ReturnCode(manual_match)
    /\ pc' = "done"
    /\ UNCHANGED <<host_input_data, cpu_result, kernel_result_manual, image_out,
                   kernel_cmd, next_item, i, manual_match, n_examined, last_examined,
                   out, errs, failed_at, trace, acquired>>
    /\ UNCHANGED <<mirrorVars, evalVars>>

HarnessNext ==
    \/ GenerateInput
    \/ CpuReference
    \/ ClCall
    \/ OpenKernelFile
    \/ BuildProgram
    \/ BuildLog
    \/ EnqueueKernel
    \/ ReadImage
    \/ Finish
    \/ CompareStep
    \/ CompareEnd
    \/ Report
    \/ Cleanup

\* ---- Spec: the backend as an external collaborator --------------------

\* The buffers a device may hand back: the expected one, or one that
\* differs from it at one position, or at two positions at most MaxGap
\* apart (above the expected value at the first, below it at the second).
BackendOutputs ==
    {cpu_result} \cup
    { [k \in 0..(output_size - 1) |->
          IF k = a THEN cpu_result[k] + 1
          ELSE IF k = a + gap THEN cpu_result[k] - 1
          ELSE cpu_result[k]] :
      a \in 0..(output_size - 1), gap \in 0..MaxGap }

\* The device runs the queued kernel to completion (while the process
\* that owns the context is alive).
KernelExecute ==
    /\ kernel_cmd = "queued" /\ exit_code = -1
    /\ image_out' \in BackendOutputs
    /\ kernel_cmd' = "complete"
    /\ UNCHANGED <<pc, host_input_data, cpu_result, kernel_result_manual, next_item,
                   i, manual_match, n_examined, last_examined, out, errs, exit_code,
                   failed_at, trace, acquired, released>>
    /\ UNCHANGED <<mirrorVars, evalVars>>

Next == HarnessNext \/ KernelExecute

Spec == InitMain /\ [][Next]_vars

\* ---- SpecKernel: the backend running the per-pixel mapping -----------

\* The mapping of one axis as the kernel is specified to compute it:
\* prime, then prime mod 2*extent, then the reflection of the upper half.
KernelMirror(s, e) ==
    LET prime == IF s >= 0 THEN s ELSE -s - 1
        mod2s == prime % (2 * e)
    IN  IF mod2s < e THEN mod2s ELSE 2 * e - 1 - mod2s

\* The work-item with global id gid: destination pixel (gid mod width,
\* gid div width) takes the source pixel at the mirrored shifted
\* coordinates.  image_in is the copy of host_input_data made at line 161.
KernelPixel(gid) ==
    LET x == gid % output_width
        y == gid \div output_width
    IN  host_input_data[KernelMirror(y - offset_1, input_height) * input_width
                        + KernelMirror(x - offset_0, input_width)]

\* The work-items of compute unit u are gid = u, u + NumUnits, ...; each
\* unit runs its own in order, the units interleave freely.
WorkItem(u) ==
    /\ kernel_cmd = "queued" /\ exit_code = -1
    /\ next_item[u] < output_size
    /\ image_out' = [image_out EXCEPT ![next_item[u]] = KernelPixel(next_item[u])]
    /\ next_item' = [next_item EXCEPT ![u] = @ + NumUnits]
    /\ UNCHANGED <<pc, host_input_data, cpu_result, kernel_result_manual, kernel_cmd,
                   i, manual_match, n_examined, last_examined, out, errs, exit_code,
                   failed_at, trace, acquired, released>>
    /\ UNCHANGED <<mirrorVars, evalVars>>

\* The kernel command completes when its last work-item has.
KernelComplete ==
    /\ kernel_cmd = "queued" /\ exit_code = -1
    /\ \A u \in DOMAIN next_item : next_item[u] >= output_size
    /\ kernel_cmd' = "complete"
    /\ UNCHANGED <<pc, host_input_data, cpu_result, kernel_result_manual, image_out,
                   next_item, i, manual_match, n_examined, last_examined, out, errs,
                   exit_code, failed_at, trace, acquired, released>>
    /\ UNCHANGED <<mirrorVars, evalVars>>

NextKernel ==
    \/ HarnessNext
    \/ \E u \in 0..(NumUnits - 1) : WorkItem(u)
    \/ KernelComplete

SpecKernel == InitMain /\ [][NextKernel]_vars

\* ======================================================================
\* The claims
\* ======================================================================

\* C1: for every extent e > 0 and every shifted coordinate s, negative,
\* zero or positive, the per-axis mirroring step returns an index i with
\* 0 <= i < e.
MirrorIndexInRange ==
    mirrored => (0 <= src_index /\ src_index < extent)

\* A negative coordinate more than one period away, mapped to the last index.
MirrorIndexInRangeWitness ==
    /\ mirrored /\ extent > 1
    /\ shifted < -(extent * 2)
    /\ src_index = extent - 1

\* C2: the mirrored index is a reflection that repeats every 2e:
\* mirror(s) = mirror(s + 2e) = mirror(2e - 1 - s) = mirror(-1 - s), and for
\* e = 4 the indices for s = 0..8 are 0,1,2,3,3,2,1,0,0.
MirrorReflectionPeriodic ==
    mirrored =>
        /\ src_index = MirrorIndex(shifted + 2 * extent, extent)
        /\ src_index = MirrorIndex(2 * extent - 1 - shifted, extent)
        /\ src_index = MirrorIndex(-1 - shifted, extent)
        /\ (extent = 4 /\ shifted \in 0..8) =>
               src_index = <<0, 1, 2, 3, 3, 2, 1, 0, 0>>[shifted + 1]

\* The start of the second period of the example: e = 4, s = 8 -> 0.
MirrorReflectionPeriodicWitness ==
    mirrored /\ extent = 4 /\ shifted = 8 /\ src_index = 0

\* C3 as stated: the mirrored indices of two adjacent coordinates s and
\* s + 1 are always different (no edge pixel is sampled twice in a row).
NoDuplicatedEdgePixel ==
    mirrored => src_index # MirrorIndex(shifted + 1, extent)

\* C3 as amended: the mirrored indices of s and s + 1 are equal exactly
\* when s + 1 is a multiple of e (the crossing of a boundary, where the
\* edge pixel is sampled twice), and differ by exactly 1 otherwise.
EdgePixelDuplicatedAtBoundary ==
    mirrored =>
        LET here == src_index
            next == MirrorIndex(shifted + 1, extent)
        IN  IF (shifted + 1) % extent = 0
            THEN next = here
            ELSE next - here \in {-1, 1}

\* The upper boundary of the example: e = 4, s = 3 and s = 4 both give 3.
EdgePixelDuplicatedWitness ==
    /\ mirrored /\ extent = 4 /\ shifted = 3 /\ src_index = 3
    /\ MirrorIndex(shifted + 1, extent) = 3

\* C4: with offset (0,0) and the destination dimensions equal to the
\* source dimensions, the destination buffer equals the source buffer.
IdentityCase ==
    (/\ epc = "done"
     /\ offset_x = 0 /\ offset_y = 0
     /\ dst_w = src_w /\ dst_h = src_h)
    => dst_data = src_data

\* A finished identity run on a non-square source whose pixels differ.
IdentityCaseWitness ==
    /\ epc = "done"
    /\ offset_x = 0 /\ offset_y = 0
    /\ dst_w = src_w /\ dst_h = src_h
    /\ src_w = 2 /\ src_h = 3
    /\ n_done = 6
    /\ dst_data = src_data /\ src_data[1] # src_data[2]

\* C5: every iteration reads the source at a flat index in
\* [0, src_w*src_h) and writes the destination at a flat index in
\* [0, dst_w*dst_h); the buffers keep the lengths src_w*src_h and
\* dst_w*dst_h.
NoOutOfBoundsAccess ==
    epc # "idle" =>
        /\ DOMAIN src_data = 0..(src_w * src_h - 1)
        /\ DOMAIN dst_data = 0..(dst_w * dst_h - 1)
        /\ epc # "fault"
        /\ n_done > 0 =>
              /\ 0 <= rd_index /\ rd_index < src_w * src_h
              /\ 0 <= wr_index /\ wr_index < dst_w * dst_h

\* A finished run on a destination more than twice as large as the source
\* on both axes, shifted on both axes.
NoOutOfBoundsAccessWitness ==
    /\ epc = "done"
    /\ dst_w > 2 * src_w /\ dst_h > 2 * src_h
    /\ offset_x > 0 /\ offset_y > 0
    /\ n_done = dst_w * dst_h
    /\ wr_index = dst_w * dst_h - 1

\* C6: source 4x5 holding 0..19, destination 12x12, offset (5,2): whatever
\* the order in which the work-items run, every pixel the backend has
\* written equals the evaluator's, the completed image equals the
\* evaluator's buffer at all 144 positions, and the harness reports PASS.
KernelMatchesEvaluator ==
    /\ pc \notin {"idle", "generate_input", "cpu_reference"} =>
          /\ cpu_result[0] = 7
          /\ \A u \in DOMAIN next_item :
                \A gid \in 0..(output_size - 1) :
                    (gid % NumUnits = u /\ gid < next_item[u])
                    => image_out[gid] = cpu_result[gid]
    /\ kernel_cmd = "complete" => image_out = cpu_result
    /\ pc \in {"report", "cleanup", "done"} =>
          /\ manual_match
          /\ kernel_result_manual = cpu_result
          /\ n_examined = output_size
          /\ errs = <<>>
    /\ pc \in {"cleanup", "done"} =>
          out[2] = "CPU vs. Manual Mirrored Kernel: PASS"

\* The run that ends with PASS after all 144 positions were compared.
KernelMatchesEvaluatorWitness ==
    /\ pc = "done" /\ manual_match
    /\ n_examined = 144
    /\ \A u \in DOMAIN next_item : next_item[u] >= output_size
    /\ kernel_result_manual = cpu_result
    /\ out[2] = "CPU vs. Manual Mirrored Kernel: PASS"

\* The positions at which the two buffers differ.
DiffersAt ==
    { k \in DOMAIN cpu_result \cap DOMAIN kernel_result_manual :
          cpu_result[k] # kernel_result_manual[k] }

\* C7: the scan goes through the indices in increasing order with exact
\* equality; the flag ends true iff the buffers are equal everywhere, and
\* if they differ exactly one mismatch is reported, at the least differing
\* index, and no index after it is examined.
ComparisonProtocol ==
    /\ n_examined = last_examined + 1
    /\ pc = "compare" =>
          /\ n_examined = i /\ manual_match
          /\ \A k \in 0..(i - 1) : cpu_result[k] = kernel_result_manual[k]
    /\ pc \in {"report", "cleanup", "done"} =>
          LET d == DiffersAt
          IN  /\ manual_match <=> (d = {})
              /\ manual_match => (errs = <<>> /\ n_examined = output_size)
              /\ ~manual_match =>
                    \E m \in d :
                        /\ \A k \in d : m <= k
                        /\ errs = << <<"Mismatch found at index", m,
                                       cpu_result[m], kernel_result_manual[m]>> >>
                        /\ last_examined = m

\* A finished scan of buffers that differ at two positions: the first is
\* reported, the second was never reached.
ComparisonProtocolWitness ==
    /\ pc = "report" /\ ~manual_match
    /\ Cardinality(DiffersAt) = 2
    /\ \E k \in DiffersAt : k > last_examined
    /\ Len(errs) = 1

\* C8: when every backend call succeeds, the harness prints the PASS/FAIL
\* line and both buffers and ends with exit code 0, whether the comparison
\* passed or failed; a run that has not ended can always take a step.
MismatchIsNotAFault ==
    /\ pc \in {"cleanup", "done"} =>
          /\ out = << "--- Results Comparison ---",
                      IF manual_match THEN "CPU vs. Manual Mirrored Kernel: PASS"
                                      ELSE "CPU vs. Manual Mirrored Kernel: FAIL",
                      "CPU Result:", "printMatrix(cpu_result)",
                      "Kernel Result:", "printMatrix(kernel_result_manual)" >>
          /\ failed_at = "none"
    /\ pc = "done" => exit_code = 0
    /\ (DiffersAt # {} /\ pc = "done") => ~manual_match
    /\ pc \notin {"idle", "done", "exit"} => (exit_code = -1 /\ ENABLED Next)

\* A run whose comparison failed and that still ended with exit code 0.
MismatchIsNotAFaultWitness ==
    /\ pc = "done" /\ ~manual_match /\ exit_code = 0
    /\ out[2] = "CPU vs. Manual Mirrored Kernel: FAIL"
    /\ Len(out) = 6

BarrierOrdering ==
    /\ pc \in {"compare", "report", "cleanup", "done"} =>
          /\ kernel_cmd = "complete"
          /\ kernel_result_manual = image_out
    /\ kernel_cmd = "queued" => pc \in {"clEnqueueReadImage", "exit"}
    /\ pc = "clEnqueueReadImage" => kernel_result_manual = ZeroBuffer(output_size)
    /\ kernel_cmd # "none" =>
          /\ pc \notin {"generate_input", "cpu_reference"}
          /\ host_input_data = [k \in 0..(input_size - 1) |-> k]
    /\ released # {} =>
          /\ pc = "done"
          /\ released = acquired
          /\ Len(out) = 6
          /\ n_examined > 0

\* The end of a successful run: everything released after the report.
BarrierOrderingWitness ==
    /\ pc = "done" /\ released = AllHandles
    /\ kernel_cmd = "complete"
    /\ Len(out) = 6

====
